---- MODULE Spec2Model ----
(***************************************************************************)
(* Model of src/src/jose.c (mod_auth_openidc JOSE layer): the JWT parse /  *)
(* decrypt / verify / sign / destroy operations, the key-resolution loops, *)
(* the JWK constructors, serialization and encryption.                     *)
(*                                                                         *)
(* The cjose provider (import, decrypt, verify primitives) is external to *)
(* jose.c; it is modelled by its observable outcome at each call site.     *)
(* Compact tokens are abstract records that say what the provider makes    *)
(* of the text: whether it imports as a JWE or a JWS, its protected        *)
(* header (alg, kid), the key material that produced it, and what its      *)
(* payload text parses to.                                                 *)
(***************************************************************************)
EXTENDS Integers, Sequences, FiniteSets, TLC

VARIABLES
    deprecated,  \* oidc_jose_version_deprecated(): cjose version starts with "0.4."
    keys,        \* the apr_hash_t *keys handed to the calls: [null, ht]
    jwt,         \* the oidc_jwt_t object the caller works on
    j_jwt,       \* the caller's oidc_jwt_t * (FALSE = NULL, TRUE = points to jwt)
    call,        \* what the last call did: arguments, return code, error, provider calls
    pc,          \* where the caller is: "idle", "jwt" (holds a parsed JWT), "done"
    crashed,     \* the process trapped (NULL dereference)
    built,       \* the last JWK construction: arguments, return value, *oidc_jwk
    fn,          \* the last call of a pure helper: its argument and its result
    enc,         \* the last oidc_jwt_encrypt: its arguments and its results
    jwks,        \* the oidc_jwk_t objects alive: object -> its cjose_jwk handle
    kset,        \* a keyset of those objects: kid -> object
    released,    \* cjose_jwk_release calls made so far: handle -> count
    heap         \* the cjose_jws_t made so far and which one jwt->cjose_jws is

\* The state of the JWK operations.
jwkvars == <<built, fn, enc, jwks, kset, released>>
vars == <<deprecated, keys, jwt, j_jwt, call, pc, crashed,
          built, fn, enc, jwks, kset, released, heap>>

\* ---------------------------------------------------------------- bounds
MaxKids == 2     \* kid values 1..MaxKids (0 stands for "no kid" / NULL)
MaxMat == 3      \* key materials 1..MaxMat (0 stands for a NULL handle)

Kids == 1..MaxKids
Mats == 1..MaxMat

\* ------------------------------------------------------ algorithm metadata
KTY_RSA == "RSA"
KTY_OCT == "oct"
KTY_EC == "EC"
KTY_UNKNOWN == "-1"

OIDC_JOSE_EC_SUPPORT == TRUE

ALG_RS256 == <<"R", "S", "2", "5", "6">>
ALG_HS256 == <<"H", "S", "2", "5", "6">>
ALG_RSA_OAEP == <<"R", "S", "A", "-", "O", "A", "E", "P">>
ALG_RSA1_5 == <<"R", "S", "A", "1", "_", "5">>
ALG_A128KW == <<"A", "1", "2", "8", "K", "W">>
ALG_A192KW == <<"A", "1", "9", "2", "K", "W">>
ALG_A256KW == <<"A", "2", "5", "6", "K", "W">>
ALG_DIR == <<"d", "i", "r">>
ALG_NULL == << >>

\* strncmp(alg, pfx, 2) == 0 for a two-character prefix
strncmp2(alg, a, b) == Len(alg) >= 2 /\ alg[1] = a /\ alg[2] = b

oidc_alg2kty(alg) ==
    IF alg = ALG_DIR THEN KTY_OCT
    ELSE IF strncmp2(alg, "R", "S") THEN KTY_RSA
    ELSE IF strncmp2(alg, "P", "S") THEN KTY_RSA
    ELSE IF strncmp2(alg, "H", "S") THEN KTY_OCT
    ELSE IF OIDC_JOSE_EC_SUPPORT /\ strncmp2(alg, "E", "S") THEN KTY_EC
    ELSE IF alg \in {ALG_A128KW, ALG_A192KW, ALG_A256KW} THEN KTY_OCT
    ELSE IF alg \in {ALG_RSA1_5, ALG_RSA_OAEP} THEN KTY_RSA
    ELSE KTY_UNKNOWN

\* ------------------------------------------------------------- data model
\* Key material m: odd materials are RSA keys, even ones octet (symmetric) keys.
MatKty(m) == IF m % 2 = 1 THEN KTY_RSA ELSE KTY_OCT

\* oidc_jwk_t as built by oidc_jwk_from_cjose: kty is read off the key material.
oidc_jwk_from_cjose(m) == [kty |-> MatKty(m), cjose_jwk |-> m]

\* Every hash table kid -> oidc_jwk_t over the kids, and the NULL table.
HashTables == UNION {[D -> {oidc_jwk_from_cjose(m) : m \in Mats}] : D \in SUBSET Kids}
EmptyTable == [k \in {} |-> oidc_jwk_from_cjose(1)]
KeySets == {[null |-> FALSE, ht |-> h] : h \in HashTables}
               \cup {[null |-> TRUE, ht |-> EmptyTable]}

apr_hash_count(ks) == Cardinality(DOMAIN ks.ht)

\* The orders in which apr_hash_first/apr_hash_next can walk a table.
Orders(ks) ==
    LET D == DOMAIN ks.ht
        n == Cardinality(D)
    IN  {o \in [1..n -> D] : \A i, j \in 1..n : o[i] = o[j] => i = j}

\* Compact token texts.  t: what the text imports as; alg, kid: protected
\* header; mat: the key material that signed / encrypted it; payload: what
\* json_loads makes of the JWS payload; ptok: cjose_jws_get_plaintext
\* succeeds; inner: which text a JWE decrypts to.
PayloadKinds == {"object", "array", "invalid"}

\* A C string is a tuple; NULLSTR is the NULL pointer.
NULLSTR == <<"NULL">>

\* What the payload object holds under "iss", "sub", "exp" and "iat": for
\* each, nothing, a JSON string or a JSON number.
Claims(iss, sub, exp, iat) == [iss |-> iss, sub |-> sub, exp |-> exp, iat |-> iat]
json_number_value(v) == 100
JwsAlgs == {ALG_RS256, ALG_HS256}
JweAlgs == {ALG_RSA_OAEP, ALG_A128KW}

Token(t, alg, kid, mat, payload, ptok, inner) ==
    [t |-> t, alg |-> alg, kid |-> kid, mat |-> mat, payload |-> payload,
     ptok |-> ptok, inner |-> inner, claims |-> Claims("absent", "absent", "absent", "absent")]

NULLTXT == Token("NULL", ALG_NULL, 0, 0, "invalid", FALSE, 0)
GarbageText == Token("text", ALG_NULL, 0, 0, "invalid", FALSE, 0)

JwsTokens ==
    {tk \in {Token("jws", a, k, m, p, x, 0) :
                a \in JwsAlgs, k \in {0} \cup Kids, m \in Mats,
                p \in PayloadKinds, x \in BOOLEAN} :
        MatKty(tk.mat) = oidc_alg2kty(tk.alg)}

\* The plaintexts a JWE of the model carries: a well-formed JWS or plain text.
Inner(i) ==
    IF i = 1 THEN Token("jws", ALG_RS256, 0, 1, "object", TRUE, 0) ELSE GarbageText

JweTokens ==
    {tk \in {Token("jwe", a, k, m, "invalid", FALSE, i) :
                a \in JweAlgs, k \in {0} \cup Kids, m \in Mats, i \in {1, 2}} :
        MatKty(tk.mat) = oidc_alg2kty(tk.alg)}

\* Signed tokens whose payload object holds the four claims in every
\* combination of kinds, and a compact text whose header has no "alg".
ClaimTokens ==
    {[Token("jws", ALG_RS256, 0, 1, "object", TRUE, 0) EXCEPT
         !.claims = Claims(i, s, e, a)] :
       i \in {"absent", "string", "number"}, s \in {"absent", "string", "number"},
       e \in {"absent", "string", "number"}, a \in {"absent", "string", "number"}}

Tokens == JwsTokens \cup JweTokens \cup {GarbageText} \cup ClaimTokens
              \cup {Token("jws", ALG_NULL, 0, 1, "object", TRUE, 0)}

\* oidc_jose_error_t: the message last written, its %d argument and the
\* cjose_err it quotes (the kid of the attempt that set it, 0 for none).
Err(msg, n, ce) == [msg |-> msg, n |-> n, cjose_err |-> ce]
NoErr == Err("", 0, 0)

\* ------------------------------------------------------ provider primitives
\* cjose_jwe_decrypt succeeds with the key material the JWE was encrypted to.
cjose_jwe_decrypt(jwe, jwk) == jwk.cjose_jwk # 0 /\ jwk.cjose_jwk = jwe.mat

\* cjose_jws_verify succeeds on a live handle with the material that signed it.
cjose_jws_verify(cjose_jws, jwk) ==
    cjose_jws # 0 /\ jwk.cjose_jwk # 0 /\ jwk.cjose_jwk = cjose_jws

cjose_jwe_import(input) == input.t = "jwe"
\* cjose_jws_import: the handle, or NULL for a text that is no compact JWS
\* or whose protected header has no "alg".
cjose_jws_import(s_json) ==
    IF s_json.t = "jws" /\ s_json.alg # ALG_NULL THEN s_json.mat ELSE 0

\* json_loads(str, 0): NULL ("NULL") unless the text is a JSON array or object.
json_loads(payload) == IF payload \in {"object", "array"} THEN payload ELSE "NULL"

\* One provider call as logged: the key handed over and how it went.
PCall(kid, jwk, h, ok) == [kid |-> kid, kty |-> jwk.kty, mat |-> jwk.cjose_jwk,
                           handle |-> h, ok |-> ok]

\* ------------------------------------------------------------ oidc_jwt_t
\* cjose_jws: 0 (NULL) or the handle of the imported signature, named by the
\* material that signed it; hdr_json / payload_json: the owned JSON trees.
OIDC_JWT_CLAIM_TIME_EMPTY == -1
oidc_jwt_new ==
    [cjose_jws |-> 0, hdr_json |-> FALSE, alg |-> ALG_NULL, kid |-> 0,
     payload_json |-> "NULL", iss |-> NULLSTR, sub |-> NULLSTR,
     exp |-> 0, iat |-> 0]

oidc_jwt_destroy(j) ==
    [j EXCEPT !.hdr_json = FALSE, !.payload_json = "NULL", !.cjose_jws = 0]

\* ------------------------------------------------- oidc_jwe_decrypt_impl
\* The test that selects the keys the kid-less loop tries.
jwe_key_matches_rsa_only(jwk, alg) == jwk.kty = KTY_RSA /\ jwk.kty = oidc_alg2kty(alg)
jwe_key_matches(jwk, alg) == jwk.kty = oidc_alg2kty(alg)

\* for (hi = apr_hash_first(..); hi; hi = apr_hash_next(hi)) { ... }
\* st: decrypted (non-NULL), calls (provider calls so far), cjose_err.
RECURSIVE jwe_loop(_, _, _, _, _)
\* The key at order[i] was tried and the decrypt returned ok: break on success.
jwe_loop_try(kid, jwk, st, ok) ==
    [decrypted |-> ok, calls |-> Append(st.calls, PCall(kid, jwk, 0, ok)),
     cjose_err |-> IF ok THEN st.cjose_err ELSE kid]

\* Mutant: the loop does not break on a successful decrypt.
jwe_loop_tried_nobreak(jwe, ht, order, i, st, ok) ==
    jwe_loop(jwe, ht, order, i + 1, jwe_loop_try(order[i], ht[order[i]], st, ok))

jwe_loop_tried(jwe, ht, order, i, st, ok) ==
    IF ok THEN jwe_loop_try(order[i], ht[order[i]], st, ok)
    ELSE jwe_loop(jwe, ht, order, i + 1, jwe_loop_try(order[i], ht[order[i]], st, ok))

jwe_loop(jwe, ht, order, i, st) ==
    IF i > Len(order) THEN st
    ELSE IF jwe_key_matches(ht[order[i]], jwe.alg)
         THEN jwe_loop_tried(jwe, ht, order, i, st,
                             cjose_jwe_decrypt(jwe, ht[order[i]]))
         ELSE jwe_loop(jwe, ht, order, i + 1, st)

\* Mutant: the error counts the keys the provider was called with.
jwe_loop_result_tried(ks, st) ==
    [decrypted |-> st.decrypted, calls |-> st.calls,
     err |-> IF st.decrypted THEN NoErr
             ELSE Err("could not be decrypted with any of the %d keys",
                      Len(st.calls), st.cjose_err)]

\* if (decrypted == NULL) oidc_jose_error(..., apr_hash_count(keys), cjose_err)
jwe_loop_result(ks, st) ==
    [decrypted |-> st.decrypted, calls |-> st.calls,
     err |-> IF st.decrypted THEN NoErr
             ELSE Err("could not be decrypted with any of the %d keys",
                      apr_hash_count(ks), st.cjose_err)]

\* The kid-present branch: apr_hash_get, then one decrypt with the key found.
jwe_decrypt_kid(jwe, jwk, ok) ==
    [decrypted |-> ok, calls |-> <<PCall(jwe.kid, jwk, 0, ok)>>,
     err |-> IF ok THEN NoErr
             ELSE Err("could not be decrypted with kid", 0, jwe.kid)]

\* Mutant: a kid that is not in the keyset falls back to the kid-less loop.
oidc_jwe_decrypt_impl_fallback(jwe, ks, order, uninit) ==
    IF ks.null \/ apr_hash_count(ks) = 0
    THEN [decrypted |-> FALSE, calls |-> << >>,
          err |-> Err("no decryption keys configured", 0, 0)]
    ELSE IF jwe.kid # 0 /\ jwe.kid \in DOMAIN ks.ht
    THEN jwe_decrypt_kid(jwe, ks.ht[jwe.kid],
                         cjose_jwe_decrypt(jwe, ks.ht[jwe.kid]))
    ELSE jwe_loop_result(ks, jwe_loop(jwe, ks.ht, order, 1,
                                      [decrypted |-> FALSE, calls |-> << >>,
                                       cjose_err |-> uninit]))

\* uninit: the content of the uninitialised local cjose_err.
oidc_jwe_decrypt_impl(jwe, ks, order, uninit) ==
    IF ks.null \/ apr_hash_count(ks) = 0
    THEN [decrypted |-> FALSE, calls |-> << >>,
          err |-> Err("no decryption keys configured", 0, 0)]
    ELSE IF jwe.kid # 0
    THEN IF jwe.kid \in DOMAIN ks.ht
         THEN jwe_decrypt_kid(jwe, ks.ht[jwe.kid],
                              cjose_jwe_decrypt(jwe, ks.ht[jwe.kid]))
         ELSE [decrypted |-> FALSE, calls |-> << >>,
               err |-> Err("could not find key with kid", 0, 0)]
    ELSE jwe_loop_result(ks, jwe_loop(jwe, ks.ht, order, 1,
                                      [decrypted |-> FALSE, calls |-> << >>,
                                       cjose_err |-> uninit]))

\* ------------------------------------------------------ oidc_jwe_decrypt
\* return (*s_json != NULL);
jwe_decrypt_return(s_json, err, calls) ==
    [rc |-> s_json # NULLTXT, s_json |-> s_json, err |-> err, calls |-> calls]

\* Mutant: a JWE that no key decrypts is passed through like a plain text.
jwe_decrypted_passthrough(input, d, s_json0) ==
    jwe_decrypt_return(IF d.decrypted THEN Inner(input.inner) ELSE input,
                       d.err, d.calls)

\* *s_json after oidc_jwe_decrypt_impl returned d for a text that imported.
jwe_decrypted(input, d, s_json0) ==
    jwe_decrypt_return(IF d.decrypted THEN Inner(input.inner) ELSE s_json0,
                       d.err, d.calls)

\* s_json0: the caller's *s_json on entry.  Result: rc, *s_json, err, calls.
oidc_jwe_decrypt(input, ks, order, uninit, s_json0, import_must_succeed) ==
    IF cjose_jwe_import(input)
    THEN jwe_decrypted(input, oidc_jwe_decrypt_impl(input, ks, order, uninit),
                       s_json0)
    ELSE IF import_must_succeed = FALSE
    THEN jwe_decrypt_return(input, NoErr, << >>)
    ELSE jwe_decrypt_return(s_json0, Err("cjose_jwe_import failed", 0, 0), << >>)

\* -------------------------------------------------------- oidc_jwt_verify
\* Mutant: the handle is dropped after a failed verify whatever the version.
jws_always_dropped(dep, cjose_jws) == 0

\* if (oidc_jose_version_deprecated(pool)) jwt->cjose_jws = NULL;
jws_after_failed_verify(dep, cjose_jws) == IF dep THEN 0 ELSE cjose_jws

\* Mutant: the loop breaks on success only.
jws_loop_break_on_success(rc, cjose_jws) == rc = TRUE

\* if ((rc == TRUE) || (jwt->cjose_jws == NULL)) break;
jws_loop_break(rc, cjose_jws) == rc = TRUE \/ cjose_jws = 0

\* Mutant: every key of the keyset is tried, whatever its kty.
jws_any_key(jwk, alg) == TRUE

\* The test that selects the keys the kid-less loop tries.
jws_key_matches(jwk, alg) == jwk.kty = oidc_alg2kty(alg)

\* What one verify attempt that returned rc leaves behind (both branches
\* share it).  st: rc, cjose_jws (the JWT's handle), calls, err.
jws_attempted(dep, kid, jwk, st, rc) ==
        [rc |-> rc,
         cjose_jws |-> IF rc THEN st.cjose_jws
                       ELSE jws_after_failed_verify(dep, st.cjose_jws),
         calls |-> Append(st.calls, PCall(kid, jwk, st.cjose_jws, rc)),
         err |-> IF rc THEN st.err ELSE Err("cjose_jws_verify failed", 0, kid)]

jws_attempt(dep, kid, jwk, st) ==
    jws_attempted(dep, kid, jwk, st, cjose_jws_verify(st.cjose_jws, jwk))

\* The loop body for the key at order[i], then the break test, with st2 the
\* state the body left.
RECURSIVE jws_loop(_, _, _, _, _, _)
jws_loop_next(dep, alg, ht, order, i, st2) ==
    IF jws_loop_break(st2.rc, st2.cjose_jws) THEN st2
    ELSE jws_loop(dep, alg, ht, order, i + 1, st2)

jws_loop(dep, alg, ht, order, i, st) ==
    IF i > Len(order) THEN st
    ELSE jws_loop_next(dep, alg, ht, order, i,
                       IF jws_key_matches(ht[order[i]], alg)
                       THEN jws_attempt(dep, order[i], ht[order[i]], st) ELSE st)

\* Mutant: a kid that is not in the keyset falls back to trying every key.
jws_verify_kid_fallback(dep, j, ks, st) ==
    IF j.kid \in DOMAIN ks.ht
    THEN jws_attempt(dep, j.kid, ks.ht[j.kid], st)
    ELSE jws_loop(dep, j.alg, ks.ht, CHOOSE o \in Orders(ks) : TRUE, 1, st)

\* The kid-present branch: apr_hash_get and a single attempt.
jws_verify_kid(dep, j, ks, st) ==
    IF j.kid \in DOMAIN ks.ht
    THEN jws_attempt(dep, j.kid, ks.ht[j.kid], st)
    ELSE [st EXCEPT !.rc = FALSE, !.err = Err("could not find key with kid", 0, 0)]

\* if (rc == FALSE) oidc_jose_error(err, "could not verify signature ...")
jws_loop_result(ks, st) ==
    IF st.rc = FALSE
    THEN [st EXCEPT !.err =
             Err(IF apr_hash_count(ks) > 0
                 THEN "could not verify signature against any of the (%d) provided keys"
                 ELSE "could not verify signature against any of the (%d) provided keys; you have probably provided no or incorrect keys/key-types",
                 apr_hash_count(ks), 0)]
    ELSE st

\* st0: rc = FALSE and the JWT's handle on entry.
jws_verify(dep, j, ks, order, st0) ==
    IF j.kid # 0
    THEN jws_verify_kid(dep, j, ks, st0)
    ELSE jws_loop_result(ks, jws_loop(dep, j.alg, ks.ht, order, 1, st0))

\* Result: rc, the JWT's handle afterwards, err, calls.  ks is not NULL.
oidc_jwt_verify(dep, j, ks, order) ==
    jws_verify(dep, j, ks, order,
               [rc |-> FALSE, cjose_jws |-> j.cjose_jws, calls |-> << >>,
                err |-> NoErr])

\* --------------------------------------------------------- oidc_jwt_parse
\* Results: rc, the caller's *j_jwt, the JWT object, err, calls.
ParseResult(rc, p, j, err, calls) ==
    [rc |-> rc, j_jwt |-> p, jwt |-> j, err |-> err, calls |-> calls]

\* The failing exit after cjose_jws_get_plaintext.
parse_plaintext_failed(j, calls) ==
    ParseResult(FALSE, TRUE, j, Err("cjose_jws_get_plaintext failed", 0, 0), calls)

\* oidc_jose_parse_payload stored json in the payload; the caller's cleanup
\* on its failure.
\* oidc_jose_get_string(pool, json, claim_name, is_mandatory, &result, err)
oidc_jose_get_string(v, is_mandatory, result) ==
    IF v = "string" THEN [rc |-> TRUE, result |-> <<"s">>]
    ELSE [rc |-> ~is_mandatory, result |-> result]

\* oidc_jose_get_timestamp(pool, json, claim_name, is_mandatory, &result, err)
oidc_jose_get_timestamp(v, is_mandatory) ==
    IF v = "number" THEN [rc |-> TRUE, result |-> json_number_value(v)]
    ELSE [rc |-> ~is_mandatory, result |-> OIDC_JWT_CLAIM_TIME_EMPTY]

\* The four optional claims; the return values are not looked at.
parse_claims(j, claims) ==
    [j EXCEPT !.iss = oidc_jose_get_string(claims.iss, FALSE, @).result,
              !.exp = oidc_jose_get_timestamp(claims.exp, FALSE).result,
              !.iat = oidc_jose_get_timestamp(claims.iat, FALSE).result,
              !.sub = oidc_jose_get_string(claims.sub, FALSE, @).result]

parse_payload_any_json(j, json, claims, calls) ==
    IF json = "NULL"
    THEN ParseResult(FALSE, FALSE, oidc_jwt_destroy(j),
                     Err("JSON parsing (json_loads) failed", 0, 0), calls)
    ELSE ParseResult(TRUE, TRUE, parse_claims(j, claims), NoErr, calls)
parse_payload(j, json, claims, calls) ==
    IF json = "NULL"
    THEN ParseResult(FALSE, FALSE, oidc_jwt_destroy(j),
                     Err("JSON parsing (json_loads) failed", 0, 0), calls)
    ELSE IF json # "object"
    THEN ParseResult(FALSE, FALSE, oidc_jwt_destroy(j),
                     Err("JSON value is not an object", 0, 0), calls)
    ELSE ParseResult(TRUE, TRUE, parse_claims(j, claims), NoErr, calls)

\* After cjose_jws_import gave handle h for the text s_json.
parse_imported(s_json, h, calls) ==
    IF h = 0
    THEN ParseResult(FALSE, FALSE, oidc_jwt_destroy(oidc_jwt_new),
                     Err("cjose_jws_import failed", 0, 0), calls)
    ELSE IF s_json.ptok = FALSE
    THEN parse_plaintext_failed(
             [oidc_jwt_new EXCEPT !.cjose_jws = h, !.hdr_json = TRUE,
                                  !.alg = s_json.alg, !.kid = s_json.kid], calls)
    ELSE parse_payload(
             [oidc_jwt_new EXCEPT !.cjose_jws = h, !.hdr_json = TRUE,
                                  !.alg = s_json.alg, !.kid = s_json.kid,
                                  !.payload_json = json_loads(s_json.payload)],
             json_loads(s_json.payload), s_json.claims, calls)

\* After oidc_jwe_decrypt returned d.
parse_decrypted(d, old) ==
    IF d.rc = FALSE
    THEN ParseResult(FALSE, FALSE, old, d.err, d.calls)
    ELSE parse_imported(d.s_json, cjose_jws_import(d.s_json), d.calls)

\* old: the oidc_jwt_t the model held before the call; the caller's *j_jwt
\* is NULL on entry.
oidc_jwt_parse(input, ks, order, uninit, old) ==
    parse_decrypted(oidc_jwe_decrypt(input, ks, order, uninit, NULLTXT, FALSE), old)

\* ------------------------------------------------------------ cjose_jws_t
\* The signature handles: rel[h] counts the releases of the h-th cjose_jws_t
\* made (by cjose_jws_import or cjose_jws_sign, by the caller or by the
\* provider); ptr is the one jwt->cjose_jws points to (0: NULL); stale: a
\* handle was handed to the provider after its release.
NoHeap == [ptr |-> 0, rel |-> << >>, stale |-> FALSE]

\* cjose_jws_release(jwt->cjose_jws)
cjose_jws_release(hp) == [hp EXCEPT !.rel[hp.ptr] = @ + 1]

\* if (jwt->cjose_jws) { cjose_jws_release(jwt->cjose_jws); jwt->cjose_jws = NULL; }
heap_destroyed(hp) ==
    IF hp.ptr = 0 THEN hp ELSE [cjose_jws_release(hp) EXCEPT !.ptr = 0]

\* oidc_jwt_parse returned r: cjose_jws_import made a handle unless it
\* failed or was not reached; the two exits on a bad payload destroy the
\* JWT, the exit after cjose_jws_get_plaintext does not.
heap_parsed(hp, r) ==
    IF r.jwt.cjose_jws # 0
    THEN [hp EXCEPT !.rel = Append(@, 0), !.ptr = Len(hp.rel) + 1]
    ELSE IF r.err.msg \in {"JSON parsing (json_loads) failed",
                           "JSON value is not an object"}
    THEN heap_destroyed([hp EXCEPT !.rel = Append(@, 0), !.ptr = Len(hp.rel) + 1])
    ELSE hp

\* The calls oidc_jwt_verify made to cjose_jws_verify, in order: a
\* deprecated provider has released the handle when it returns FALSE.
\* final: jwt->cjose_jws when oidc_jwt_verify returns.
RECURSIVE heap_verified(_, _, _, _, _)
heap_verified(hp, dep, calls, i, final) ==
    IF i > Len(calls) THEN [hp EXCEPT !.ptr = IF final = 0 THEN 0 ELSE @]
    ELSE IF calls[i].handle = 0
    THEN heap_verified(hp, dep, calls, i + 1, final)
    ELSE heap_verified([hp EXCEPT !.stale = @ \/ hp.rel[hp.ptr] > 0,
                                  !.rel[hp.ptr] = IF dep /\ ~calls[i].ok
                                                  THEN @ + 1 ELSE @],
                       dep, calls, i + 1, final)

\* ----------------------------------------------------------- state machine
\* The record of a call: op, its arguments (input, import_must_succeed, the
\* hash walk order, the JWT's handle on entry), and its results (rc, err,
\* the output text, the provider calls made, ub: the call ran into the
\* NULL-table dereference and returned all the same).
Call(op, rc, err, calls, order, input, ims, out, jws0, ub) ==
    [op |-> op, rc |-> rc, err |-> err, calls |-> calls, order |-> order,
     input |-> input, ims |-> ims, out |-> out, jws0 |-> jws0, ub |-> ub]

Idle == Call("idle", FALSE, NoErr, << >>, << >>, NULLTXT, FALSE, NULLTXT, 0, FALSE)

DecryptCall(r, order, input, ims) ==
    Call("decrypt", r.rc, r.err, r.calls, order, input, ims, r.s_json, 0, FALSE)

\* The caller goes on to use the JWT only when the parse returned TRUE.
ParseDone(r, order, input) ==
    /\ pc' = IF r.rc THEN "jwt" ELSE "done"
    /\ jwt' = r.jwt
    /\ j_jwt' = r.j_jwt
    /\ call' = Call("parse", r.rc, r.err, r.calls, order, input, FALSE,
                    NULLTXT, 0, FALSE)
    /\ heap' = heap_parsed(heap, r)

VerifyDone(r, order) ==
    /\ jwt' = [jwt EXCEPT !.cjose_jws = r.cjose_jws]
    /\ call' = Call("verify", r.rc, r.err, r.calls, order, NULLTXT, FALSE,
                    NULLTXT, jwt.cjose_jws, FALSE)
    /\ heap' = heap_verified(heap, deprecated, r.calls, 1, r.cjose_jws)

\* No JWK operation has been called: nothing constructed, no object alive.
JwkIdle ==
    /\ built = [op |-> "idle"]
    /\ fn = [op |-> "idle"]
    /\ enc = [op |-> "idle"]
    /\ jwks = << >>
    /\ kset = << >>
    /\ released = << >>

Init ==
    /\ deprecated \in BOOLEAN
    /\ keys \in KeySets
    /\ jwt = oidc_jwt_new
    /\ j_jwt = FALSE
    /\ call = Idle
    /\ pc = "idle"
    /\ crashed = FALSE
    /\ heap = NoHeap
    /\ JwkIdle

\* oidc_jwe_decrypt(pool, input, keys, &s_json, err, import_must_succeed),
\* called with s_json = NULL as oidc_jwt_parse does.
JweDecrypt ==
    /\ ~crashed /\ pc = "idle"
    /\ pc' = "done"
    /\ \E input \in Tokens, ims \in BOOLEAN, order \in Orders(keys),
          uninit \in {0} \cup Kids :
         call' = DecryptCall(oidc_jwe_decrypt(input, keys, order, uninit,
                                              NULLTXT, ims), order, input, ims)
    /\ UNCHANGED <<deprecated, keys, jwt, j_jwt, crashed, heap>>
    /\ UNCHANGED jwkvars

\* oidc_jwt_parse(pool, input, &j_jwt, keys, err) with j_jwt = NULL on entry.
JwtParse ==
    /\ ~crashed /\ pc = "idle"
    /\ \E input \in Tokens, order \in Orders(keys), uninit \in {0} \cup Kids :
         ParseDone(oidc_jwt_parse(input, keys, order, uninit, jwt), order, input)
    /\ UNCHANGED <<deprecated, keys, crashed>>
    /\ UNCHANGED jwkvars

\* oidc_jwt_verify(pool, jwt, keys, err) on the JWT the caller holds.
JwtVerify ==
    /\ ~crashed /\ pc = "jwt" /\ ~keys.null
    /\ \E order \in Orders(keys) :
         VerifyDone(oidc_jwt_verify(deprecated, jwt, keys, order), order)
    /\ UNCHANGED <<deprecated, keys, j_jwt, pc, crashed>>
    /\ UNCHANGED jwkvars

\* oidc_jwt_verify with keys == NULL: apr_hash_get / apr_hash_first read
\* through the NULL table.  The process traps, or the read yields garbage
\* and the call returns some rc without having reached the provider.
JwtVerifyNullKeys ==
    /\ ~crashed /\ pc = "jwt" /\ keys.null
    /\ \/ /\ crashed' = TRUE
          /\ call' = Call("verify", FALSE, NoErr, << >>, << >>, NULLTXT, FALSE,
                          NULLTXT, jwt.cjose_jws, TRUE)
       \/ /\ crashed' = FALSE
          /\ \E rc \in BOOLEAN :
               call' = Call("verify", rc, NoErr, << >>, << >>, NULLTXT, FALSE,
                            NULLTXT, jwt.cjose_jws, TRUE)
    /\ UNCHANGED <<deprecated, keys, jwt, j_jwt, pc, heap>>
    /\ UNCHANGED jwkvars

\* oidc_jwt_destroy(jwt) on the JWT the caller holds.
JwtDestroy ==
    /\ ~crashed /\ pc = "jwt"
    /\ jwt' = oidc_jwt_destroy(jwt)
    /\ call' = Call("destroy", FALSE, NoErr, << >>, << >>, NULLTXT, FALSE,
                    NULLTXT, jwt.cjose_jws, FALSE)
    /\ heap' = heap_destroyed(heap)
    /\ UNCHANGED <<deprecated, keys, j_jwt, pc, crashed>>
    /\ UNCHANGED jwkvars

Next == JweDecrypt \/ JwtParse \/ JwtVerify \/ JwtVerifyNullKeys \/ JwtDestroy

Spec == Init /\ [][Next]_vars

\* ================================================================= claims
\* Helpers of the claims' formulas.
KeyIds == DOMAIN keys.ht
VerifyCall == call.op = "verify" /\ ~call.ub
KidLessVerify == VerifyCall /\ jwt.kid = 0
TriedKids == [i \in DOMAIN call.calls |-> call.calls[i].kid]

\* The keys of the table whose kty is the key type of alg, in walk order.
MatchingInOrder(alg) ==
    SelectSeq(call.order, LAMBDA k : keys.ht[k].kty = oidc_alg2kty(alg))

\* A key of matching kty whose signature check succeeds on the entry handle.
GoodVerifyKey(k) ==
    /\ keys.ht[k].kty = oidc_alg2kty(jwt.alg)
    /\ cjose_jws_verify(call.jws0, keys.ht[k])

\* The prefix of seq up to and including the first element that satisfies
\* Good (all of seq when none does).
UpToFirst(seq, Good(_)) ==
    LET hits == {i \in DOMAIN seq : Good(seq[i])}
    IN  IF hits = {} THEN seq
        ELSE SubSeq(seq, 1, CHOOSE i \in hits : \A j \in hits : i <= j)

\* C1 (as claimed): a kid-less verify returns TRUE whenever the keyset holds
\* a key of matching kty whose signature check succeeds, for every walk
\* order and either value of the version flag.
C1_AnyOrderAnyVersion ==
    (KidLessVerify /\ \E k \in KeyIds : GoodVerifyKey(k)) => call.rc = TRUE

\* C1 (amended): with the version flag not set, a kid-less verify returns
\* TRUE whenever the keyset holds a key of matching kty whose signature
\* check succeeds, for every walk order; with the flag set it returns TRUE
\* exactly when the first key of matching kty in walk order is such a key.
C1_OrderIndependentUnlessDeprecated ==
    (KidLessVerify /\ \E k \in KeyIds : GoodVerifyKey(k)) =>
        /\ ~deprecated => call.rc = TRUE
        /\ deprecated => (call.rc = TRUE <=> GoodVerifyKey(MatchingInOrder(jwt.alg)[1]))

\* C1 witness: flag not set, the first matching key failed, the second verified.
C1_Witness ==
    /\ KidLessVerify /\ ~deprecated /\ call.rc = TRUE
    /\ Len(call.calls) = 2 /\ ~call.calls[1].ok /\ call.calls[2].ok

\* C2: a verify on a supplied keyset returns TRUE only if a provider call of
\* this verify, made with a key of the keyset, succeeded; a kid-less verify
\* on a keyset without a key of matching kty returns FALSE with an error and
\* makes no provider call.
C2_TrueOnlyByPrimitive ==
    VerifyCall =>
        /\ call.rc = TRUE =>
              \E i \in DOMAIN call.calls :
                  /\ call.calls[i].ok
                  /\ call.calls[i].kid \in KeyIds
                  /\ keys.ht[call.calls[i].kid].cjose_jwk = call.calls[i].mat
                  /\ cjose_jws_verify(call.jws0, keys.ht[call.calls[i].kid])
        /\ (jwt.kid = 0 /\ \A k \in KeyIds : keys.ht[k].kty # oidc_alg2kty(jwt.alg)) =>
              /\ call.rc = FALSE
              /\ call.err # NoErr
              /\ call.calls = << >>

\* C2 witness: a kid-less verify on a non-empty keyset of other key types.
C2_Witness ==
    /\ KidLessVerify /\ KeyIds # {} /\ call.jws0 # 0
    /\ \A k \in KeyIds : keys.ht[k].kty # oidc_alg2kty(jwt.alg)
    /\ call.rc = FALSE

\* C3: a verify of a JWT with a kid makes at most one provider call, with the
\* key stored under exactly that kid; when the kid is not in the keyset it
\* fails with "could not find key with kid" and makes no provider call.
C3_KidExactMatch ==
    (VerifyCall /\ jwt.kid # 0) =>
        /\ Len(call.calls) <= 1
        /\ jwt.kid \in KeyIds =>
              /\ Len(call.calls) = 1
              /\ call.calls[1].kid = jwt.kid
              /\ call.calls[1].mat = keys.ht[jwt.kid].cjose_jwk
              /\ call.rc = call.calls[1].ok
        /\ jwt.kid \notin KeyIds =>
              /\ call.rc = FALSE
              /\ call.err.msg = "could not find key with kid"
              /\ call.calls = << >>

\* C3 witness: the kid is absent while another key of the keyset would verify.
C3_Witness ==
    /\ VerifyCall /\ jwt.kid # 0 /\ jwt.kid \notin KeyIds
    /\ \E k \in KeyIds : GoodVerifyKey(k)

\* C4 (as claimed): in the kid-less loop with the version flag not set, a
\* failed verify never stops the loop: the keys tried are the keys of
\* matching kty in walk order up to the first that verifies; with the flag
\* set the first failed verify nulls the handle and is the last provider call.
C4_FailureNeverStopsUnlessDeprecated ==
    KidLessVerify =>
        /\ ~deprecated =>
              TriedKids = UpToFirst(MatchingInOrder(jwt.alg), GoodVerifyKey)
        /\ deprecated =>
              \A i \in DOMAIN call.calls :
                  ~call.calls[i].ok => (i = Len(call.calls) /\ jwt.cjose_jws = 0)

\* C4 (amended): as claimed, when the JWT's signature handle is not null on
\* entry; a JWT entering with a null handle has the loop stop after the
\* first key walked, whatever the flag.
C4_FailureStopsOnlyOnNullHandle ==
    KidLessVerify =>
        /\ (~deprecated /\ call.jws0 # 0) =>
              TriedKids = UpToFirst(MatchingInOrder(jwt.alg), GoodVerifyKey)
        /\ deprecated =>
              \A i \in DOMAIN call.calls :
                  ~call.calls[i].ok => (i = Len(call.calls) /\ jwt.cjose_jws = 0)
        /\ (call.jws0 = 0 /\ call.order # << >>) =>
              /\ call.rc = FALSE
              /\ TriedKids = SelectSeq(<<call.order[1]>>,
                                       LAMBDA k : keys.ht[k].kty = oidc_alg2kty(jwt.alg))

\* C4 witness: flag set, the first attempt failed and nulled the handle while
\* a second key of matching kty was left untried.
C4_Witness ==
    /\ KidLessVerify /\ deprecated /\ call.jws0 # 0
    /\ Len(call.calls) = 1 /\ ~call.calls[1].ok /\ jwt.cjose_jws = 0
    /\ Len(MatchingInOrder(jwt.alg)) = 2

NoKeys == keys.null \/ apr_hash_count(keys) = 0
DecryptCallOf(t) == call.op = "decrypt" /\ call.input.t = t
\* A call that ran oidc_jwe_decrypt_impl: a decrypt, or a parse, of a JWE.
ImplCall == call.op \in {"decrypt", "parse"} /\ call.input.t = "jwe"
JweGoodKey(k) ==
    /\ keys.ht[k].kty = oidc_alg2kty(call.input.alg)
    /\ cjose_jwe_decrypt(call.input, keys.ht[k])
NoKeysErrors ==
    {"no decryption keys configured",
     "could not verify signature against any of the (%d) provided keys; you have probably provided no or incorrect keys/key-types"}

\* C5: with an empty or NULL keyset, decrypting a JWE (either value of
\* import_must_succeed) and verifying a JWT (with or without kid) both fail
\* with an error of the "no keys configured" class and never call the
\* provider.  (A text that does not import as a JWE never reaches key
\* resolution, see C9; the claim is read on the inputs that do.)
C5_EmptyKeysetFailFast ==
    NoKeys =>
        /\ ImplCall =>
              /\ call.rc = FALSE
              /\ call.err.msg \in NoKeysErrors
              /\ call.calls = << >>
        /\ call.op = "verify" =>
              /\ ~crashed /\ ~call.ub
              /\ call.rc = FALSE
              /\ call.err.msg \in NoKeysErrors
              /\ call.calls = << >>

\* C6: decrypting a JWE whose header has a kid, on a non-empty keyset: the
\* only key ever handed to the provider is the one stored under that kid;
\* when no key is stored under it the call fails with "could not find key
\* with kid", yields no plaintext and makes no provider call.
C6_DecryptKidExactMatch ==
    (ImplCall /\ call.input.kid # 0 /\ ~NoKeys) =>
        /\ call.input.kid \in KeyIds =>
              /\ Len(call.calls) = 1
              /\ call.calls[1].kid = call.input.kid
              /\ call.calls[1].mat = keys.ht[call.input.kid].cjose_jwk
        /\ call.input.kid \notin KeyIds =>
              /\ call.rc = FALSE
              /\ call.out = NULLTXT
              /\ ~j_jwt
              /\ call.err.msg = "could not find key with kid"
              /\ call.calls = << >>

\* C6 witness: the kid is absent while another key of the keyset would decrypt.
C6_Witness ==
    /\ DecryptCallOf("jwe") /\ call.input.kid # 0 /\ call.input.kid \notin KeyIds
    /\ \E k \in KeyIds : JweGoodKey(k)

\* C7: decrypting a JWE without kid: the provider is called only with keys
\* whose kty is oidc_alg2kty(alg), no provider call follows a successful one,
\* and the decrypt succeeds exactly when some key of matching kty decrypts
\* the token, whatever the walk order.
C7_KidLessDecrypt ==
    (ImplCall /\ call.input.kid = 0) =>
        /\ \A i \in DOMAIN call.calls :
              /\ call.calls[i].kty = oidc_alg2kty(call.input.alg)
              /\ call.calls[i].kid \in KeyIds
              /\ keys.ht[call.calls[i].kid].kty = oidc_alg2kty(call.input.alg)
              /\ call.calls[i].ok => i = Len(call.calls)
        /\ call.op = "decrypt" =>
              /\ call.rc = (\E k \in KeyIds : JweGoodKey(k))
              /\ call.rc => call.out = Inner(call.input.inner)

\* C7 witness: the first key of matching kty failed, the second decrypted.
C7_Witness ==
    /\ DecryptCallOf("jwe") /\ call.input.kid = 0 /\ call.rc
    /\ Len(call.calls) = 2 /\ ~call.calls[1].ok /\ call.calls[2].ok

KidLessDecryptFailed ==
    /\ DecryptCallOf("jwe") /\ call.input.kid = 0 /\ ~NoKeys /\ call.rc = FALSE

C9_PassThroughOnlyOnImportFailure ==
    call.op = "decrypt" =>
        /\ (call.input.t # "jwe" /\ ~call.ims) =>
              (call.rc = TRUE /\ call.out = call.input /\ call.calls = << >>)
        /\ (call.input.t # "jwe" /\ call.ims) =>
              (call.rc = FALSE /\ call.err # NoErr /\ call.out = NULLTXT)
        /\ (call.input.t = "jwe" /\ \A i \in DOMAIN call.calls : ~call.calls[i].ok) =>
              (call.rc = FALSE /\ call.err # NoErr /\ call.out = NULLTXT
                  /\ call.out # call.input)

\* C9 witness: import_must_succeed FALSE, a JWE, a key tried, none decrypted.
C9_Witness ==
    /\ DecryptCallOf("jwe") /\ ~call.ims /\ call.calls # << >> /\ call.rc = FALSE

\* C10: oidc_jwt_parse is all-or-nothing: on every failing exit the JWT it
\* built is destroyed (handle and JSON trees released) and the output
\* pointer is NULL; a non-NULL JWT comes only with TRUE.
C10_ParseAllOrNothing ==
    call.op = "parse" =>
        /\ call.rc = FALSE =>
              /\ ~j_jwt
              /\ jwt.cjose_jws = 0 /\ ~jwt.hdr_json /\ jwt.payload_json = "NULL"
        /\ j_jwt => call.rc = TRUE

\* The compact JWS a parse call worked on: the input, or what it decrypts to.
ParsedOk == call.op = "parse" /\ call.rc = TRUE
ParsedText ==
    IF call.input.t = "jwe" THEN Inner(call.input.inner) ELSE call.input
TimeOf(kind) ==
    IF kind = "number" THEN json_number_value(kind) ELSE OIDC_JWT_CLAIM_TIME_EMPTY

\* C13: after every successful oidc_jwt_parse the header algorithm is
\* present and the payload is a JSON object; "iss", "sub", "exp" and "iat"
\* that are absent or of the wrong type never make the parse fail, and an
\* absent or non-numeric "exp" / "iat" is reported as the empty-time value.
C13_ParsedShape ==
    /\ ParsedOk =>
         /\ jwt.alg # ALG_NULL
         /\ jwt.payload_json = "object"
         /\ jwt.exp = TimeOf(ParsedText.claims.exp)
         /\ jwt.iat = TimeOf(ParsedText.claims.iat)
         /\ (ParsedText.claims.iss # "string") => jwt.iss = NULLSTR
         /\ (ParsedText.claims.sub # "string") => jwt.sub = NULLSTR
    /\ (call.op = "parse" /\ call.input \in ClaimTokens) => call.rc = TRUE

C13_Witness ==
    /\ ParsedOk
    /\ call.input.claims = Claims("number", "absent", "string", "absent")
    /\ jwt.exp = OIDC_JWT_CLAIM_TIME_EMPTY /\ jwt.iat = OIDC_JWT_CLAIM_TIME_EMPTY

\* C23: every key handed to the verify primitive by oidc_jwt_verify, and to
\* the decrypt primitive by oidc_jwe_decrypt_impl, has the kty that
\* oidc_alg2kty gives for the token's algorithm, whether the token names a
\* kid or not.
C23_KtyGuardOnEveryCall ==
    /\ VerifyCall =>
          \A i \in DOMAIN call.calls :
              call.calls[i].kty = oidc_alg2kty(jwt.alg)
    /\ ImplCall =>
          \A i \in DOMAIN call.calls :
              call.calls[i].kty = oidc_alg2kty(call.input.alg)

\* =============================================================== JWK model
\* ---------------------------------------------------------------- bounds
MaxChain == 3    \* PEM blocks in the stream handed to the RSA importer

\* An explicit kid is <<"kid", i>>; the text produced by an encoder names
\* the encoder and what it encoded.

\* The bytes of an RSA key: modulus n and public exponent e (65537).
KeyN(m) == <<128 + m, m>>
KeyE(m) == <<1, 0, 1>>

\* A block of a PEM stream: its name, whether its body decodes (ok), the
\* key it holds (a material of Mats, RSA or not) and, for a certificate,
\* the identity of its DER bytes.
PemBlock(name, ok, mat, der) == [name |-> name, ok |-> ok, mat |-> mat, der |-> der]
NoBlock == PemBlock("", FALSE, 0, 0)
PemBlocks ==
    { PemBlock("PRIVATE KEY", TRUE, 1, 0), PemBlock("PUBLIC KEY", TRUE, 1, 0),
      PemBlock("CERTIFICATE", TRUE, 1, 1), PemBlock("CERTIFICATE", TRUE, 3, 2),
      PemBlock("CERTIFICATE", TRUE, 2, 3), PemBlock("CERTIFICATE", FALSE, 0, 0) }

\* The provider calls of the importer that can fail, and the sets of them
\* that fail in one call: none, any one, or both digests.
Fails ==
    {{}} \cup {{"sha1", "sha256"}}
         \cup {{f} : f \in {"pubkey", "b64", "i2d", "sha1", "sha256", "b64n",
                              "rsa_spec", "kidhash", "set_kid"}}

\* PEM_read_bio_<name>(input): reads on from pos, skips the blocks of
\* another name, and returns the first block of that name, or NULL when
\* there is none or when its body does not decode.
PemFirst(pem, pos, name) ==
    CHOOSE i \in pos..(Len(pem) + 1) :
        /\ i <= Len(pem) => pem[i].name = name
        /\ \A j \in pos..(i - 1) : pem[j].name # name
PEM_read_bio(pem, pos, name) ==
    IF PemFirst(pem, pos, name) > Len(pem)
    THEN [ok |-> FALSE, pos |-> Len(pem) + 1, blk |-> NoBlock]
    ELSE [ok |-> pem[PemFirst(pem, pos, name)].ok,
          pos |-> PemFirst(pem, pos, name) + 1,
          blk |-> pem[PemFirst(pem, pos, name)]]

\* The cjose_jwk_t handle: the key material it holds and the kid set on it.
CjoseJwk(mat, kid) == [mat |-> mat, kid |-> kid]
NoHandle == CjoseJwk(0, NULLSTR)

\* oidc_jwk_new: apr_pcalloc, every field zero.
oidc_jwk_new ==
    [kty |-> KTY_UNKNOWN, kid |-> NULLSTR, cjose_jwk |-> NoHandle,
     x5c |-> << >>, x5t |-> NULLSTR, x5t_S256 |-> NULLSTR]

\* oidc_jose_hash_and_base64url_encode(pool, algo, input, len, &output):
\* the base64url text of the digest, or FALSE with output untouched.
oidc_jose_hash_and_base64url_encode(algo, input, ok, output) ==
    [rc |-> ok, output |-> IF ok THEN <<"base64url", algo, input>> ELSE output]

\* oidc_jwk_set_or_generate_kid: the kid set on the handle, or FALSE.
set_kid_on(cjose_jwk, jwk_kid, fails) ==
    IF "set_kid" \in fails
    THEN [rc |-> FALSE, cjose_jwk |-> cjose_jwk]
    ELSE [rc |-> TRUE, cjose_jwk |-> [cjose_jwk EXCEPT !.kid = jwk_kid]]
generate_kid(cjose_jwk, h, fails) ==
    IF ~h.rc THEN [rc |-> FALSE, cjose_jwk |-> cjose_jwk]
    ELSE set_kid_on(cjose_jwk, h.output, fails)
kid_fingerprint_n_only(key_params) == SubSeq(key_params, 1, 2)
kid_fingerprint(key_params) == key_params
oidc_jwk_set_or_generate_kid(cjose_jwk, s_kid, key_params, fails) ==
    IF s_kid # NULLSTR
    THEN set_kid_on(cjose_jwk, s_kid, fails)
    ELSE generate_kid(cjose_jwk,
             oidc_jose_hash_and_base64url_encode("sha256",
                 kid_fingerprint(key_params), "kidhash" \notin fails, NULLSTR),
             fails)

\* The result of the importer: its return value, the object *oidc_jwk
\* points to (set at entry, never reset), and whether the call trapped.
BioResult(rv, o, trap) == [rv |-> rv, oidc_jwk |-> o, trap |-> trap]

\* Lines 1289-1302: the kid, then kid and kty read back from the handle.
bio_kid_done(o, k) ==
    IF ~k.rc THEN BioResult(FALSE, o, FALSE)
    ELSE BioResult(TRUE, [o EXCEPT !.cjose_jwk = k.cjose_jwk,
                                   !.kid = k.cjose_jwk.kid,
                                   !.kty = MatKty(k.cjose_jwk.mat)], FALSE)
bio_set_kid(o, kid, fails) ==
    bio_kid_done(o, oidc_jwk_set_or_generate_kid(o.cjose_jwk, kid,
                        KeyN(o.cjose_jwk.mat) \o KeyE(o.cjose_jwk.mat), fails))

\* Lines 1247-1287: EVP_PKEY_get1_RSA, cjose_jwk_create_RSA_spec.
bio_rsa_key(o, pkey, kid, fails) ==
    IF MatKty(pkey.mat) # KTY_RSA THEN BioResult(FALSE, o, FALSE)
    ELSE IF "rsa_spec" \in fails THEN BioResult(FALSE, o, FALSE)
    ELSE bio_set_kid([o EXCEPT !.cjose_jwk = CjoseJwk(pkey.mat, NULLSTR)],
                     kid, fails)

\* Lines 1221-1243: the rest of the chain.  The encoder leaves its output
\* pointer alone when it fails, so the entry is cut from the text of the
\* certificate before; realloc is handed memory of the pool, which traps
\* or goes through.
RECURSIVE bio_chain(_, _, _, _, _, _, _, _)
bio_chain_read(o, r, pem, pkey, kid, fails, trap, prev) ==
    IF ~r.ok THEN bio_rsa_key(o, pkey, kid, fails)
    ELSE IF trap THEN BioResult(FALSE, o, TRUE)
    ELSE bio_chain([o EXCEPT !.x5c = Append(@, IF "b64n" \in fails
                                               THEN <<"stale", prev>>
                                               ELSE <<"base64", r.blk.der>>)],
                   pem, r.pos, pkey, kid, fails, trap, r.blk.der)
bio_chain(o, pem, pos, pkey, kid, fails, trap, prev) ==
    bio_chain_read(o, PEM_read_bio(pem, pos, "CERTIFICATE"), pem, pkey, kid,
                   fails, trap, prev)

\* Lines 1204-1217: the two thumbprints; a failed digest is reported and
\* the import goes on.
bio_thumbprints(o, x509, fails) ==
    [o EXCEPT
       !.x5t = oidc_jose_hash_and_base64url_encode("sha1", x509.der,
                   "sha1" \notin fails, @).output,
       !.x5t_S256 = oidc_jose_hash_and_base64url_encode("sha256", x509.der,
                   "sha256" \notin fails, @).output]

\* Lines 1168-1219: the first certificate.
bio_first_cert(o, x509, pem, pos, kid, fails, trap) ==
    IF "pubkey" \in fails THEN BioResult(FALSE, o, FALSE)
    ELSE IF "b64" \in fails THEN BioResult(FALSE, o, FALSE)
    ELSE IF "i2d" \in fails
    THEN BioResult(FALSE, [o EXCEPT !.x5c = << <<"base64", x509.der>> >>], FALSE)
    ELSE bio_chain(bio_thumbprints([o EXCEPT !.x5c = << <<"base64", x509.der>> >>],
                                   x509, fails),
                   pem, pos, x509, kid, fails, trap, x509.der)

\* Lines 1159-1166: a public key, or else (after BIO_reset) a certificate.
bio_x509(o, r, pem, kid, fails, trap) ==
    IF ~r.ok THEN BioResult(FALSE, o, FALSE)
    ELSE bio_first_cert(o, r.blk, pem, r.pos, kid, fails, trap)
bio_public(o, r, pem, kid, fails, trap) ==
    IF r.ok THEN bio_rsa_key(o, r.blk, kid, fails)
    ELSE bio_x509(o, PEM_read_bio(pem, 1, "CERTIFICATE"), pem, kid, fails, trap)
bio_private(o, r, kid, fails) ==
    IF ~r.ok THEN BioResult(FALSE, o, FALSE)
    ELSE bio_rsa_key(o, r.blk, kid, fails)

\* oidc_jwk_rsa_bio_to_jwk(pool, input, kid, &oidc_jwk, is_private_key, err)
oidc_jwk_rsa_bio_to_jwk(pem, kid, is_private_key, fails, trap) ==
    IF is_private_key
    THEN bio_private(oidc_jwk_new, PEM_read_bio(pem, 1, "PRIVATE KEY"), kid, fails)
    ELSE bio_public(oidc_jwk_new, PEM_read_bio(pem, 1, "PUBLIC KEY"), pem, kid,
                    fails, trap)

\* ------------------------------------------------- JWK construction calls
\* The JWT side at rest while JWK operations are exercised.
JwtIdle ==
    /\ deprecated = FALSE
    /\ keys = [null |-> FALSE, ht |-> EmptyTable]
    /\ jwt = oidc_jwt_new
    /\ j_jwt = FALSE
    /\ call = Idle
    /\ pc = "idle"
    /\ crashed = FALSE
    /\ heap = NoHeap

\* The record of a JWK construction: op, its arguments, its return value,
\* whether the caller's oidc_jwk_t pointer is NULL afterwards, the object it
\* points to otherwise, and whether the call trapped.
Built(op, args, rv, null, o, trap) ==
    [op |-> op, args |-> args, rv |-> rv, null |-> null, jwk |-> o, trap |-> trap]

BioDone(r, pem, kid, is_private_key, fails) ==
    /\ built' = Built("rsa_bio",
                      [pem |-> pem, kid |-> kid, is_private_key |-> is_private_key,
                       fails |-> fails],
                      r.rv, FALSE, r.oidc_jwk, r.trap)
    /\ crashed' = r.trap

\* oidc_jwk_rsa_bio_to_jwk on a PEM stream; the importer releases nothing.
JwkRsaBioToJwk ==
    /\ ~crashed /\ pc = "idle"
    /\ pc' = "done"
    /\ \E pem \in UNION {[1..n -> PemBlocks] : n \in 0..MaxChain},
          kid \in {NULLSTR, <<"kid", 1>>},
          is_private_key \in BOOLEAN, fails \in Fails, trap \in BOOLEAN :
         BioDone(oidc_jwk_rsa_bio_to_jwk(pem, kid, is_private_key, fails, trap),
                 pem, kid, is_private_key, fails)
    /\ UNCHANGED <<deprecated, keys, jwt, j_jwt, call>>
    /\ UNCHANGED <<fn, enc, jwks, kset, released, heap>>

\* The bytes of a symmetric key.
SecretBytes(m) == <<m, 255 - m>>

\* cjose_jwk_release(h): one more release of the handle h.
cjose_jwk_release(rel, h) ==
    [x \in DOMAIN rel \cup {h} |->
        (IF x \in DOMAIN rel THEN rel[x] ELSE 0) + (IF x = h THEN 1 ELSE 0)]

\* oidc_jwk_create_symmetric_key(pool, skid, key, key_len, set_kid, err).
\* Results: the JWK returned (null: NULL) and the handle it released
\* (NoHandle: none).
sym_kid_done(k, h) ==
    IF ~k.rc THEN [null |-> TRUE, jwk |-> oidc_jwk_new, released |-> h]
    ELSE [null |-> FALSE,
          jwk |-> [oidc_jwk_new EXCEPT !.cjose_jwk = k.cjose_jwk,
                                       !.kid = k.cjose_jwk.kid,
                                       !.kty = MatKty(k.cjose_jwk.mat)],
          released |-> NoHandle]
oidc_jwk_create_symmetric_key(skid, mat, set_kid, fails) ==
    IF "oct_spec" \in fails
    THEN [null |-> TRUE, jwk |-> oidc_jwk_new, released |-> NoHandle]
    ELSE IF set_kid = TRUE
    THEN sym_kid_done(oidc_jwk_set_or_generate_kid(CjoseJwk(mat, NULLSTR), skid,
                                                   SecretBytes(mat), fails),
                      CjoseJwk(mat, NULLSTR))
    ELSE [null |-> FALSE,
          jwk |-> [oidc_jwk_new EXCEPT !.cjose_jwk = CjoseJwk(mat, NULLSTR),
                                       !.kty = MatKty(mat)],
          released |-> NoHandle]

SymDone(r, skid, mat, set_kid, fails) ==
    /\ built' = Built("symmetric",
                      [kid |-> skid, mat |-> mat, set_kid |-> set_kid,
                       fails |-> fails],
                      ~r.null, r.null, r.jwk, FALSE)
    /\ released' = IF r.released = NoHandle THEN released
                    ELSE cjose_jwk_release(released, r.released)

\* oidc_jwk_create_symmetric_key on the bytes of an octet key.
JwkCreateSymmetricKey ==
    /\ ~crashed /\ pc = "idle"
    /\ pc' = "done"
    /\ \E skid \in {NULLSTR} \cup {<<"kid", i>> : i \in Kids},
          mat \in {m \in Mats : MatKty(m) = KTY_OCT},
          set_kid \in BOOLEAN,
          fails \in {{}} \cup {{f} : f \in {"oct_spec", "kidhash", "set_kid"}} :
         SymDone(oidc_jwk_create_symmetric_key(skid, mat, set_kid, fails),
                 skid, mat, set_kid, fails)
    /\ UNCHANGED <<deprecated, keys, jwt, j_jwt, call, crashed>>
    /\ UNCHANGED <<fn, enc, jwks, kset, heap>>

\* ---------------------------------------------------------- oidc_jwk_parse
\* A JWK text.  native: cjose_jwk_import takes it (a key of material mat
\* with the kid); otherwise json says whether json_loads takes it, kty and
\* x5c what the object holds under those names, cert the certificate the
\* first x5c string carries, kid the string under "kid" (or NULLSTR).
JwkJson(native, mat, json, kty, x5c, cert, kid) ==
    [native |-> native, mat |-> mat, json |-> json, kty |-> kty, x5c |-> x5c,
     cert |-> cert, kid |-> kid]
JwkJsons ==
    {JwkJson(TRUE, m, "object", "RSA", "absent", NoBlock, k) :
        m \in Mats, k \in {NULLSTR, <<"kid", 1>>}}
    \cup {JwkJson(FALSE, 0, "invalid", "absent", "absent", NoBlock, NULLSTR)}
    \cup {JwkJson(FALSE, 0, "object", t, x, NoBlock, k) :
            t \in {"absent", "number", "RSA", "EC"},
            x \in {"absent", "notarray", "empty", "nonstring"},
            k \in {NULLSTR, <<"kid", 1>>}}
    \cup {JwkJson(FALSE, 0, "object", t, "string", c, k) :
            t \in {"absent", "number", "RSA", "EC"},
            c \in {b \in PemBlocks : b.name = "CERTIFICATE"},
            k \in {NULLSTR, <<"kid", 1>>}}

\* cjose_jwk_import(s_json, len): the handle, or NULL.
cjose_jwk_import(s_json) ==
    IF s_json.native THEN CjoseJwk(s_json.mat, s_json.kid) ELSE NoHandle

\* oidc_jwk_from_cjose on a handle: kid and kty are read off the handle.
jwk_from_cjose(cjose_jwk) ==
    [oidc_jwk_new EXCEPT !.cjose_jwk = cjose_jwk, !.kid = cjose_jwk.kid,
                         !.kty = MatKty(cjose_jwk.mat)]

\* oidc_jwk_parse_rsa_x5c(pool, json, &jwk, err).  Results: rv, *jwk, what
\* the importer returned ("none": not called), trap.  Copying the last
\* 75-character piece of the x5c string reads past its end, which traps or
\* goes through.
X5cResult(rv, cjose_jwk, import, trap) ==
    [rv |-> rv, cjose_jwk |-> cjose_jwk, import |-> import, trap |-> trap]
x5c_imported(r) ==
    X5cResult(r.rv, r.oidc_jwk.cjose_jwk, IF r.rv THEN "TRUE" ELSE "FALSE", r.trap)
oidc_jwk_parse_rsa_x5c(s_json, fails, trap, overread) ==
    IF s_json.x5c # "string" THEN X5cResult(FALSE, NoHandle, "none", FALSE)
    ELSE IF overread THEN X5cResult(FALSE, NoHandle, "none", TRUE)
    ELSE IF "bio" \in fails THEN X5cResult(FALSE, NoHandle, "none", FALSE)
    ELSE x5c_imported(oidc_jwk_rsa_bio_to_jwk(<<s_json.cert>>, s_json.kid,
                                              FALSE, fails, trap))

\* oidc_jwk_parse_rsa_x5c_spec(pool, s_json, err): the return value of
\* oidc_jwk_parse_rsa_x5c is not looked at.
oidc_jwk_parse_rsa_x5c_spec(s_json, fails, trap, overread) ==
    IF s_json.json = "invalid" THEN X5cResult(FALSE, NoHandle, "none", FALSE)
    ELSE IF s_json.kty \in {"absent", "number"}
    THEN X5cResult(FALSE, NoHandle, "none", FALSE)
    ELSE IF s_json.kty # "RSA" THEN X5cResult(FALSE, NoHandle, "none", FALSE)
    ELSE IF s_json.x5c = "absent" THEN X5cResult(FALSE, NoHandle, "none", FALSE)
    ELSE oidc_jwk_parse_rsa_x5c(s_json, fails, trap, overread)

\* oidc_jwk_parse(pool, s_json, err).  Results: the JWK returned (null:
\* NULL), what the importer returned, trap.
jwk_parse_fallback(x) ==
    IF x.trap \/ x.cjose_jwk = NoHandle
    THEN [null |-> TRUE, jwk |-> oidc_jwk_new, import |-> x.import,
          trap |-> x.trap]
    ELSE [null |-> FALSE, jwk |-> jwk_from_cjose(x.cjose_jwk),
          import |-> x.import, trap |-> FALSE]
oidc_jwk_parse(s_json, fails, trap, overread) ==
    IF cjose_jwk_import(s_json) # NoHandle
    THEN [null |-> FALSE, jwk |-> jwk_from_cjose(cjose_jwk_import(s_json)),
          import |-> "none", trap |-> FALSE]
    ELSE jwk_parse_fallback(oidc_jwk_parse_rsa_x5c_spec(s_json, fails, trap,
                                                        overread))

JwkParseDone(r, s_json, fails) ==
    /\ built' = [op |-> "parse", args |-> [json |-> s_json, fails |-> fails],
                 rv |-> ~r.null, null |-> r.null, jwk |-> r.jwk,
                 trap |-> r.trap, import |-> r.import]
    /\ crashed' = r.trap

\* oidc_jwk_parse on a JWK text.
JwkParse ==
    /\ ~crashed /\ pc = "idle"
    /\ pc' = "done"
    /\ \E s_json \in JwkJsons, fails \in Fails \cup {{"bio"}}, trap \in BOOLEAN,
          overread \in BOOLEAN :
         JwkParseDone(oidc_jwk_parse(s_json, fails, trap, overread), s_json, fails)
    /\ UNCHANGED <<deprecated, keys, jwt, j_jwt, call>>
    /\ UNCHANGED <<fn, enc, jwks, kset, released, heap>>

\* ------------------------------------------------------------ claims (JWK)
BioCall == built.op = "rsa_bio" /\ ~built.trap
LiveHandle == built.jwk.cjose_jwk # NoHandle

\* C11: whenever oidc_jwk_rsa_bio_to_jwk returns FALSE the caller's output
\* JWK is NULL: no JWK with x5c, thumbprints or a key handle is left behind,
\* and no handle the call created is still unreleased.
C11_ImportAllOrNothing ==
    (BioCall /\ ~built.rv) => (built.null /\ ~LiveHandle)

\* ============================================================ serialization
\* ---------------------------------------------------------------- bounds
MaxMembers == 2    \* members of a JSON payload object

ALG_NONE == <<"n", "o", "n", "e">>

\* {"alg":"none"}, base64url-encoded
OIDC_JOSE_HDR_ALG_NONE == <<"e", "y", "J", "h", "b", "G", "c", "i", "O", "i", "J", "u", "b", "2", "5", "l", "I", "n", "0">>

\* The code of a character of the texts json_dumps writes here.
Ascii(c) ==
    CASE c = "{" -> 123 [] c = "}" -> 125 [] c = "\"" -> 34 [] c = ":" -> 58
      [] c = "," -> 44 [] c = "a" -> 97 [] c = "b" -> 98 [] c = "c" -> 99
      [] c = "0" -> 48 [] c = "1" -> 49 [] c = "2" -> 50 [] c = "3" -> 51

\* A JSON object: its members in insertion order, each <<key, value>> with
\* a one-letter key and a one-digit number.
JsonObjects ==
    {o \in UNION {[1..n -> {"a", "b", "c"} \X {"1", "2"}] : n \in 0..MaxMembers} :
        \A i, j \in DOMAIN o : o[i][1] = o[j][1] => i = j}

\* json_dumps(json, JSON_PRESERVE_ORDER | JSON_COMPACT): no white space,
\* members in insertion order.
RECURSIVE json_dumps_members(_, _)
json_dumps_members(o, i) ==
    IF i > Len(o) THEN << >>
    ELSE (IF i > 1 THEN <<",">> ELSE << >>)
         \o <<"\"", o[i][1], "\"", ":", o[i][2]>>
         \o json_dumps_members(o, i + 1)
json_dumps(o) == <<"{">> \o json_dumps_members(o, 1) \o <<"}">>

\* cjose_base64url_encode: the URL-safe alphabet, 6 bits a character, the
\* last group of one or two bytes giving two or three characters, no padding.
Base64UrlAlphabet ==
    <<"A", "B", "C", "D", "E", "F", "G", "H", "I", "J", "K", "L", "M", "N", "O", "P",
      "Q", "R", "S", "T", "U", "V", "W", "X", "Y", "Z", "a", "b", "c", "d", "e", "f",
      "g", "h", "i", "j", "k", "l", "m", "n", "o", "p", "q", "r", "s", "t", "u", "v",
      "w", "x", "y", "z", "0", "1", "2", "3", "4", "5", "6", "7", "8", "9", "-", "_">>
\* The characters of a group of n bytes (n in 1..3; the bytes beyond n are 0).
b64_group(b1, b2, b3, n) ==
    SubSeq(<<Base64UrlAlphabet[(b1 \div 4) + 1],
             Base64UrlAlphabet[((b1 % 4) * 16) + (b2 \div 16) + 1],
             Base64UrlAlphabet[((b2 % 16) * 4) + (b3 \div 64) + 1],
             Base64UrlAlphabet[(b3 % 64) + 1]>>, 1, n + 1)
RECURSIVE base64url_bytes(_, _)
base64url_bytes(s, i) ==
    IF i > Len(s) THEN << >>
    ELSE IF i = Len(s) THEN b64_group(Ascii(s[i]), 0, 0, 1)
    ELSE IF i + 1 = Len(s) THEN b64_group(Ascii(s[i]), Ascii(s[i + 1]), 0, 2)
    ELSE b64_group(Ascii(s[i]), Ascii(s[i + 1]), Ascii(s[i + 2]), 3)
         \o base64url_bytes(s, i + 3)
cjose_base64url_encode(s, ok) ==
    [rc |-> ok, out |-> IF ok THEN base64url_bytes(s, 1) ELSE NULLSTR]

\* cjose_jws_export(jwt->cjose_jws, &cser): the compact text of the signed
\* representation attached to the JWT, none for a NULL handle.
cjose_jws_export(cjose_jws) ==
    IF cjose_jws # 0 THEN <<"jws", ToString(cjose_jws)>> ELSE NULLSTR

\* oidc_jwt_serialize(pool, jwt, err): NULLSTR stands for a NULL return.
serialize_none_nodot(e) ==
    IF ~e.rc THEN NULLSTR
    ELSE OIDC_JOSE_HDR_ALG_NONE \o <<".">> \o e.out
serialize_none(e) ==
    IF ~e.rc THEN NULLSTR
    ELSE OIDC_JOSE_HDR_ALG_NONE \o <<".">> \o e.out \o <<".">>
oidc_jwt_serialize(j, ok) ==
    IF j.alg # ALG_NONE
    THEN cjose_jws_export(j.cjose_jws)
    ELSE serialize_none(cjose_base64url_encode(json_dumps(j.payload), ok))

\* ------------------------------------------------------ pure helper calls
\* oidc_jwt_serialize on a JWT with a header algorithm, a header kid, a
\* payload object and, possibly, a signed representation attached.
JwtSerialize ==
    /\ ~crashed /\ pc = "idle"
    /\ pc' = "done"
    /\ \E alg \in {ALG_NONE, ALG_RS256, ALG_HS256}, kid \in {0} \cup Kids,
          payload \in JsonObjects, cjose_jws \in {0} \cup Mats, ok \in BOOLEAN :
         fn' = [op |-> "serialize",
                args |-> [alg |-> alg, kid |-> kid, payload |-> payload,
                          cjose_jws |-> cjose_jws, ok |-> alg # ALG_NONE \/ ok],
                res |-> oidc_jwt_serialize([alg |-> alg, kid |-> kid,
                                            payload |-> payload,
                                            cjose_jws |-> cjose_jws], ok)]
    /\ UNCHANGED <<deprecated, keys, jwt, j_jwt, call, crashed>>
    /\ UNCHANGED <<built, enc, jwks, kset, released, heap>>

\* ---------------------------------------------------------------- bounds
MaxAlgLen == 3    \* length of the algorithm identifiers tried beyond the lists

\* oidc_jose_jwe_supported_algorithms
JweSupportedAlgs == {ALG_RSA1_5, ALG_A128KW, ALG_A192KW, ALG_A256KW, ALG_RSA_OAEP}

\* oidc_jose_jws_supported_algorithms
JwsSupportedAlgs ==
    {<<"R", "S", "2", "5", "6">>, <<"R", "S", "3", "8", "4">>, <<"R", "S", "5", "1", "2">>,
     <<"P", "S", "2", "5", "6">>, <<"P", "S", "3", "8", "4">>, <<"P", "S", "5", "1", "2">>,
     <<"H", "S", "2", "5", "6">>, <<"H", "S", "3", "8", "4">>, <<"H", "S", "5", "1", "2">>}
    \cup (IF OIDC_JOSE_EC_SUPPORT
          THEN {<<"E", "S", "2", "5", "6">>, <<"E", "S", "3", "8", "4">>, <<"E", "S", "5", "1", "2">>}
          ELSE {})
    \cup {ALG_NONE}

\* Identifiers handed to oidc_alg2kty: the listed ones, "dir", and every
\* short string over a few letters.
AlgStrings ==
    JwsSupportedAlgs \cup JweSupportedAlgs \cup {ALG_DIR}
        \cup UNION {[1..n -> {"R", "S", "P", "H", "E", "x"}] : n \in 0..MaxAlgLen}

\* oidc_alg2kty(alg)
Alg2Kty ==
    /\ ~crashed /\ pc = "idle"
    /\ pc' = "done"
    /\ \E alg \in AlgStrings :
         fn' = [op |-> "alg2kty", args |-> [alg |-> alg],
                res |-> oidc_alg2kty(alg)]
    /\ UNCHANGED <<deprecated, keys, jwt, j_jwt, call, crashed>>
    /\ UNCHANGED <<built, enc, jwks, kset, released, heap>>

\* One call of a JWK constructor or of a helper, with nothing done before.
InitCall == JwtIdle /\ JwkIdle

NextCall ==
    \/ JwkRsaBioToJwk
    \/ JwkCreateSymmetricKey
    \/ JwkParse
    \/ JwtSerialize
    \/ Alg2Kty

SpecCall == InitCall /\ [][NextCall]_vars

\* ------------------------------------------------- claims (serialization)
\* The key type of a listed identifier, by its family.
ListedKty(alg) ==
    IF alg \in JweSupportedAlgs
    THEN (IF alg \in {ALG_RSA1_5, ALG_RSA_OAEP} THEN KTY_RSA ELSE KTY_OCT)
    ELSE IF alg[1] = "H" THEN KTY_OCT
    ELSE IF alg[1] = "E" THEN KTY_EC
    ELSE KTY_RSA

\* C16: oidc_alg2kty is a closed lookup: it returns the unknown key type
\* (-1) for every identifier that is not in the supported signing or
\* key-management lists, and for "none", and the key type of its family
\* for every other listed identifier.
C16_ClosedLookup ==
    fn.op = "alg2kty" =>
       /\ (fn.args.alg \notin (JwsSupportedAlgs \cup JweSupportedAlgs)
              \/ fn.args.alg = ALG_NONE) => fn.res = KTY_UNKNOWN
       /\ (fn.args.alg \in (JwsSupportedAlgs \cup JweSupportedAlgs)
              /\ fn.args.alg # ALG_NONE) => fn.res = ListedKty(fn.args.alg)

SerializeNone ==
    fn.op = "serialize" /\ fn.args.alg = ALG_NONE /\ fn.args.ok

\* C12: for a JWT whose header algorithm is "none", oidc_jwt_serialize
\* returns the fixed text eyJhbGciOiJub25lIn0, a dot, the unpadded base64url
\* text of the compact JSON of the payload, and a trailing dot, whatever
\* the header kid and the attached signed representation are; the payload
\* {"a":1} gives eyJhbGciOiJub25lIn0.eyJhIjoxfQ. (the encoder not failing).
C12_SerializeNone ==
    SerializeNone =>
       /\ fn.res = OIDC_JOSE_HDR_ALG_NONE \o <<".">>
                     \o base64url_bytes(json_dumps(fn.args.payload), 1)
                     \o <<".">>
       /\ fn.args.payload = << <<"a", "1">> >> =>
            fn.res = <<"e", "y", "J", "h", "b", "G", "c", "i", "O", "i", "J", "u", "b", "2", "5", "l", "I", "n", "0", ".", "e", "y", "J", "h", "I", "j", "o", "x", "f", "Q", ".">>
       /\ fn.args.payload = << >> =>
            fn.res = <<"e", "y", "J", "h", "b", "G", "c", "i", "O", "i", "J", "u", "b", "2", "5", "l", "I", "n", "0", ".", "e", "3", "0", ".">>
       /\ fn.args.payload = << <<"a", "1">>, <<"b", "2">> >> =>
            fn.res = <<"e", "y", "J", "h", "b", "G", "c", "i", "O", "i", "J", "u", "b", "2", "5", "l", "I", "n", "0", ".", "e", "y", "J", "h", "I", "j", "o", "x", "L", "C", "J", "i", "I", "j", "o", "y", "f", "Q", ".">>

C12_Witness ==
    /\ SerializeNone /\ fn.args.payload = << <<"a", "1">> >>
    /\ fn.args.kid # 0 /\ fn.args.cjose_jws # 0
    /\ fn.res = <<"e", "y", "J", "h", "b", "G", "c", "i", "O", "i", "J", "u", "b", "2", "5", "l", "I", "n", "0", ".", "e", "y", "J", "h", "I", "j", "o", "x", "f", "Q", ".">>

\* =============================================================== encryption
\* cjose_jwe_encrypt(jwk, hdr, plaintext, len): a JWE of the plaintext to
\* the key, when the key is there and is of the kind the header's "alg"
\* wraps the content key with; NULL otherwise.
cjose_jwe_encrypt(cjose_jwk, alg, ok) ==
    /\ ok /\ cjose_jwk # 0
    /\ \/ alg \in {ALG_RSA1_5, ALG_RSA_OAEP} /\ MatKty(cjose_jwk) = KTY_RSA
       \/ alg \in {ALG_A128KW, ALG_A192KW, ALG_A256KW, ALG_DIR}
             /\ MatKty(cjose_jwk) = KTY_OCT

\* oidc_jwt_encrypt(pool, jwe, jwk, payload, &serialized, err).  Results:
\* rc, *serialized (NULLTXT: not written, as the caller passed it), whether
\* cjose_jwe_encrypt gave a cjose_jwe_t (jwe_made) and the number of
\* cjose_jwe_release calls on it (jwe_released).
\* cjose_jwe_export gives the compact text of the JWE with its header "alg"
\* and "kid", made with the key material, holding the payload text Inner(i).
oidc_jwt_encrypt(alg, kid, jwk, i, encrypt_ok, export_ok) ==
    IF ~cjose_jwe_encrypt(jwk.cjose_jwk, alg, encrypt_ok)
    THEN [rc |-> FALSE, serialized |-> NULLTXT, jwe_made |-> FALSE,
          jwe_released |-> 0]
    ELSE IF ~export_ok
    THEN [rc |-> FALSE, serialized |-> NULLTXT, jwe_made |-> TRUE,
          jwe_released |-> 0]
    ELSE [rc |-> TRUE,
          serialized |-> Token("jwe", alg, kid, jwk.cjose_jwk, "invalid",
                               FALSE, i),
          jwe_made |-> TRUE, jwe_released |-> 1]

EncryptDone(r, alg, kid, i) ==
    enc' = [op |-> "encrypt", alg |-> alg, kid |-> kid, payload |-> Inner(i),
            rc |-> r.rc, serialized |-> r.serialized, jwe_made |-> r.jwe_made,
            jwe_released |-> r.jwe_released]

\* The caller holds one JWK and the keyset { jwk.kid -> jwk }.
InitJwe ==
    /\ deprecated = FALSE
    /\ \E k \in Kids, m \in Mats :
         keys = [null |-> FALSE, ht |-> [x \in {k} |-> oidc_jwk_from_cjose(m)]]
    /\ jwt = oidc_jwt_new
    /\ j_jwt = FALSE
    /\ call = Idle
    /\ pc = "idle"
    /\ crashed = FALSE
    /\ heap = NoHeap
    /\ JwkIdle

\* oidc_jwt_encrypt with the JWK of the keyset; the header names a
\* supported algorithm and carries some kid or none.
JwtEncrypt ==
    /\ ~crashed /\ pc = "idle"
    /\ pc' = "encrypted"
    /\ \E k \in DOMAIN keys.ht, alg \in JweSupportedAlgs, kid \in {0} \cup Kids,
          i \in {1, 2}, encrypt_ok \in BOOLEAN, export_ok \in BOOLEAN :
         EncryptDone(oidc_jwt_encrypt(alg, kid, keys.ht[k], i, encrypt_ok,
                                      export_ok), alg, kid, i)
    /\ UNCHANGED <<deprecated, keys, jwt, j_jwt, call, crashed>>
    /\ UNCHANGED <<built, fn, jwks, kset, released, heap>>

\* oidc_jwe_decrypt(pool, serialized, keys, &s_json, err, TRUE) on the text
\* oidc_jwt_encrypt returned.
JweDecryptSerialized ==
    /\ ~crashed /\ pc = "encrypted" /\ enc.rc
    /\ pc' = "done"
    /\ \E order \in Orders(keys), uninit \in {0} \cup Kids :
         call' = DecryptCall(oidc_jwe_decrypt(enc.serialized, keys, order, uninit,
                                              NULLTXT, TRUE),
                             order, enc.serialized, TRUE)
    /\ UNCHANGED <<deprecated, keys, jwt, j_jwt, crashed, heap>>
    /\ UNCHANGED jwkvars

NextJwe == JwtEncrypt \/ JweDecryptSerialized

SpecJwe == InitJwe /\ [][NextJwe]_vars

\* ---------------------------------------------------- claims (encryption)
RoundTrip == enc.op = "encrypt" /\ call.op = "decrypt"
KidOfJwk == CHOOSE k \in DOMAIN keys.ht : TRUE

C22_EncryptReleasesJwe ==
    enc.op = "encrypt" =>
        /\ enc.jwe_released = (IF enc.jwe_made THEN 1 ELSE 0)
        /\ ~enc.rc => enc.serialized = NULLTXT
        /\ enc.rc => enc.jwe_made

\* The kid of a JWK created without an explicit kid.
Created == built.op \in {"symmetric", "rsa_bio"} /\ built.rv = TRUE /\ ~built.trap
GeneratedKid ==
    IF built.op = "symmetric"
    THEN <<"base64url", "sha256", SecretBytes(built.jwk.cjose_jwk.mat)>>
    ELSE <<"base64url", "sha256",
           KeyN(built.jwk.cjose_jwk.mat) \o KeyE(built.jwk.cjose_jwk.mat)>>
DerivedKid ==
    IF built.args.kid # NULLSTR THEN built.args.kid ELSE GeneratedKid

\* C15 (as claimed): a JWK created by oidc_jwk_create_symmetric_key or
\* oidc_jwk_rsa_bio_to_jwk has the explicit kid verbatim when one is
\* supplied, and otherwise the base64url SHA-256 of its fingerprint (the
\* secret bytes; modulus then exponent), so it always has a kid.
C15_KidAlwaysDerived ==
    Created => (built.jwk.kid = DerivedKid /\ built.jwk.kid # NULLSTR)

\* C15 (amended): that holds for oidc_jwk_rsa_bio_to_jwk, and for
\* oidc_jwk_create_symmetric_key when set_kid is TRUE; with set_kid FALSE
\* the symmetric JWK has no kid, whatever kid was supplied.
C15_KidDerivedWhenSet ==
    Created =>
       /\ (built.op = "rsa_bio" \/ built.args.set_kid) =>
             (built.jwk.kid = DerivedKid /\ built.jwk.kid # NULLSTR
                /\ built.jwk.cjose_jwk.kid = built.jwk.kid)
       /\ (built.op = "symmetric" /\ ~built.args.set_kid) =>
             built.jwk.kid = NULLSTR

C15_Witness ==
    /\ Created /\ built.op = "symmetric" /\ built.args.set_kid
    /\ built.args.kid = NULLSTR
    /\ built.jwk.kid = <<"base64url", "sha256", SecretBytes(2)>>

\* A PEM input that is a chain of certificates, and the certificates of it
\* that come before the first block that does not decode.
CertChain(pem) ==
    Len(pem) >= 1 /\ \A i \in DOMAIN pem : pem[i].name = "CERTIFICATE"
Decoded(pem) ==
    CHOOSE n \in 0..Len(pem) :
        /\ \A i \in 1..n : pem[i].ok
        /\ n < Len(pem) => ~pem[n + 1].ok
BareKey ==
    \/ built.args.is_private_key
    \/ \E i \in DOMAIN built.args.pem : built.args.pem[i].name = "PUBLIC KEY"

\* C17: importing a chain of certificates (is_private_key false) gives one
\* x5c entry per certificate up to the first block that does not decode,
\* in order, each the base64 text of that certificate, and that block does
\* not make the import fail (no provider call failing); a bare public key
\* or a private key gives no x5c entry and no thumbprint.
C17_ChainInOrder ==
    /\ (built.op = "rsa_bio" /\ ~built.args.is_private_key
          /\ CertChain(built.args.pem) /\ Decoded(built.args.pem) >= 1
          /\ MatKty(built.args.pem[1].mat) = KTY_RSA) =>
         /\ ~built.trap
         /\ built.args.fails = {} =>
              /\ built.rv = TRUE
              /\ built.jwk.x5c = [i \in 1..Decoded(built.args.pem) |->
                                     <<"base64", built.args.pem[i].der>>]
    /\ (BioCall /\ built.rv /\ BareKey) =>
         /\ built.jwk.x5c = << >>
         /\ built.jwk.x5t = NULLSTR /\ built.jwk.x5t_S256 = NULLSTR

\* C18: every JWK of a successful import with certificates has both
\* thumbprints, x5t (SHA-1) and x5t_S256 (SHA-256), taken over the
\* certificate of x5c[0]; a failed digest never leaves a successful import
\* with x5c set and a thumbprint missing.
C18_ThumbprintsWithX5c ==
    (BioCall /\ built.rv = TRUE /\ built.jwk.x5c # << >>) =>
        /\ built.jwk.x5t = <<"base64url", "sha1", built.jwk.x5c[1][2]>>
        /\ built.jwk.x5t_S256 = <<"base64url", "sha256", built.jwk.x5c[1][2]>>

\* ============================================================== JWK destroy
\* ---------------------------------------------------------------- bounds
MaxJwks == 2     \* oidc_jwk_t objects 1..MaxJwks (0 stands for a NULL pointer)

\* Object j was made with the handle j; jwks[j] is that handle, or 0 once
\* it is NULL.
Objects == 1..MaxJwks

\* oidc_jwk_destroy(jwk), on the state st it works on: the objects' handles
\* (jwks) and the releases made (released).
oidc_jwk_destroy_keep_handle(st, j) ==
    IF j = 0 THEN st
    ELSE [st EXCEPT !.released = cjose_jwk_release(@, j)]
oidc_jwk_destroy(st, j) ==
    IF j = 0 THEN st
    ELSE IF st.jwks[j] = 0 THEN st
    ELSE [jwks |-> [st.jwks EXCEPT ![j] = 0],
          released |-> cjose_jwk_release(st.released, st.jwks[j])]

\* oidc_jwk_list_destroy(pool, keys): every value of the table, in the
\* order of the walk.
RECURSIVE jwk_list_walk(_, _, _, _)
jwk_list_walk(st, ht, order, i) ==
    IF i > Len(order) THEN st
    ELSE jwk_list_walk(oidc_jwk_destroy(st, ht[order[i]]), ht, order, i + 1)
oidc_jwk_list_destroy(st, ks, order) ==
    IF ks.null THEN st ELSE jwk_list_walk(st, ks.ht, order, 1)

\* Keysets of the objects: any table kid -> object, and the NULL table.
JwkKeySets == {[null |-> FALSE, ht |-> h] :
                  h \in UNION {[D -> Objects] : D \in SUBSET Kids}}
                  \cup {[null |-> TRUE, ht |-> << >>]}

\* Releasing a handle again after it was freed is a use after free.
Destroyed(op, j, st) ==
    /\ built' = [op |-> op, jwk |-> j, jwks0 |-> jwks]
    /\ jwks' = st.jwks
    /\ released' = st.released
    /\ crashed' = \E h \in DOMAIN st.released : st.released[h] > 1

InitDestroy ==
    /\ JwtIdle
    /\ built = [op |-> "idle"] /\ fn = [op |-> "idle"] /\ enc = [op |-> "idle"]
    /\ jwks \in [Objects -> {0} \cup Objects]
    /\ \A j \in Objects : jwks[j] \in {0, j}
    /\ kset \in JwkKeySets
    /\ released = [h \in Objects |-> 0]

\* oidc_jwk_destroy on some object, or on NULL.
JwkDestroy ==
    /\ ~crashed
    /\ \E j \in {0} \cup Objects :
         Destroyed("destroy", j, oidc_jwk_destroy([jwks |-> jwks, released |-> released], j))
    /\ UNCHANGED <<deprecated, keys, jwt, j_jwt, call, pc>>
    /\ UNCHANGED <<fn, enc, kset, heap>>

\* oidc_jwk_list_destroy on the keyset.
JwkListDestroy ==
    /\ ~crashed
    /\ \E order \in Orders(kset) :
         Destroyed("list_destroy", 0,
                   oidc_jwk_list_destroy([jwks |-> jwks, released |-> released],
                                         kset, order))
    /\ UNCHANGED <<deprecated, keys, jwt, j_jwt, call, pc>>
    /\ UNCHANGED <<fn, enc, kset, heap>>

NextDestroy == JwkDestroy \/ JwkListDestroy

SpecDestroy == InitDestroy /\ [][NextDestroy]_vars

\* -------------------------------------------------------- claims (destroy)
KeysetObjects == {kset.ht[k] : k \in DOMAIN kset.ht}

\* C19: whatever the sequence of oidc_jwk_destroy and oidc_jwk_list_destroy
\* calls (an object destroyed twice, a keyset destroyed twice, a keyset
\* with the same JWK under two kids), no handle is released twice; a
\* destroy releases the handle the object held, once, and leaves it NULL;
\* after oidc_jwk_list_destroy every JWK of the keyset has a NULL handle.
C19_ReleasedOnce ==
    /\ ~crashed
    /\ \A h \in DOMAIN released : released[h] <= 1
    /\ \A j \in DOMAIN jwks : jwks[j] = 0 \/ (jwks[j] = j /\ released[j] = 0)
    /\ (built.op = "destroy" /\ built.jwk # 0) =>
          /\ jwks[built.jwk] = 0
          /\ built.jwks0[built.jwk] # 0 => released[built.jwks0[built.jwk]] = 1
    /\ built.op = "list_destroy" =>
          \A j \in KeysetObjects :
             /\ jwks[j] = 0
             /\ built.jwks0[j] # 0 => released[built.jwks0[j]] = 1

C19_Witness ==
    /\ built.op = "list_destroy"
    /\ \E k1, k2 \in DOMAIN kset.ht :
          /\ k1 # k2 /\ kset.ht[k1] = kset.ht[k2]
          /\ built.jwks0[kset.ht[k1]] # 0
          /\ jwks[kset.ht[k1]] = 0
          /\ released[built.jwks0[kset.ht[k1]]] = 1

\* -------------------------------------------------- claims (oidc_jwk_parse)
JwkParsed == built.op = "parse" /\ ~built.trap
X5cFallback == JwkParsed /\ ~built.args.json.native

\* C20: oidc_jwk_parse returns a JWK only when its construction fully
\* succeeded: NULL for malformed JSON, for a missing or non-RSA kty on the
\* x5c path, for a missing or ill-typed x5c, and whenever the importer of
\* the x5c path returned FALSE.
C20_ParseOnlyFullJwk ==
    X5cFallback =>
        /\ built.args.json.json = "invalid" => built.null
        /\ built.args.json.kty # "RSA" => built.null
        /\ built.args.json.x5c # "string" => built.null
        /\ built.import = "FALSE" => built.null
        /\ ~built.null => built.import = "TRUE"

\* ============================================================ JWT lifecycle
\* ---------------------------------------------------------------- bounds
MaxJws == 2      \* cjose_jws_t handles made in the life of one JWT

\* cjose_jws_sign(jwk->cjose_jwk, hdr, s_payload, len): the material of the
\* new signature (0: NULL).  It needs a key, the header object and the
\* payload text, and a key of the kind the header's "alg" signs with.
cjose_jws_sign(jwk, j, ok) ==
    IF /\ ok /\ jwk.cjose_jwk # 0 /\ j.hdr_json /\ j.payload_json # "NULL"
       /\ j.alg # ALG_NULL /\ jwk.kty = oidc_alg2kty(j.alg)
    THEN jwk.cjose_jwk ELSE 0

\* oidc_jwt_sign(pool, jwt, jwk, err).  Results: rc, the JWT, the handles.
\* sign_installed: from the call of cjose_jws_sign on, with hp the handles
\* as the release of the previous signature left them.
sign_installed(j, hp, s) ==
    IF s = 0
    THEN [rc |-> FALSE, jwt |-> [j EXCEPT !.cjose_jws = 0],
          heap |-> [hp EXCEPT !.ptr = 0]]
    ELSE [rc |-> TRUE, jwt |-> [j EXCEPT !.cjose_jws = s],
          heap |-> [hp EXCEPT !.rel = Append(@, 0), !.ptr = Len(hp.rel) + 1]]
\* Mutant: the previous signature is not released.
oidc_jwt_sign_no_release(j, hp, jwk, ok) ==
    sign_installed(j, hp, cjose_jws_sign(jwk, j, ok))
oidc_jwt_sign(j, hp, jwk, ok) ==
    sign_installed(j, IF j.cjose_jws # 0 THEN cjose_jws_release(hp) ELSE hp,
                   cjose_jws_sign(jwk, j, ok))

\* The caller holds a JWT: none yet (a text is still to be parsed), or one
\* made by oidc_jwt_new(pool, TRUE, TRUE) with the header fields set.
InitLife ==
    /\ deprecated \in BOOLEAN
    /\ keys \in {ks \in KeySets : ~ks.null /\ apr_hash_count(ks) <= 2}
    /\ \/ /\ pc = "idle" /\ jwt = oidc_jwt_new /\ j_jwt = FALSE
       \/ /\ pc = "jwt" /\ j_jwt = TRUE
          /\ \E alg \in JwsAlgs, kid \in {0} \cup Kids :
               jwt = [oidc_jwt_new EXCEPT !.hdr_json = TRUE,
                                          !.payload_json = "object",
                                          !.alg = alg, !.kid = kid]
    /\ call = Idle
    /\ crashed = FALSE
    /\ heap = NoHeap
    /\ JwkIdle

\* oidc_jwt_sign on the JWT the caller holds, with some JWK.  After
\* oidc_jwt_destroy the payload object is NULL: json_dumps returns NULL and
\* strlen(NULL) traps, or yields a length with which cjose_jws_sign fails.
JwtSign ==
    /\ ~crashed /\ pc = "jwt" /\ Len(heap.rel) < MaxJws
    /\ \E m \in Mats, ok \in BOOLEAN,
          trap \in IF jwt.payload_json = "NULL" THEN BOOLEAN ELSE {FALSE} :
         /\ jwt' = oidc_jwt_sign(jwt, heap, oidc_jwk_from_cjose(m), ok).jwt
         /\ heap' = oidc_jwt_sign(jwt, heap, oidc_jwk_from_cjose(m), ok).heap
         /\ call' = Call("sign",
                         oidc_jwt_sign(jwt, heap, oidc_jwk_from_cjose(m), ok).rc,
                         NoErr, << >>, << >>, NULLTXT, FALSE, NULLTXT,
                         jwt.cjose_jws, FALSE)
         /\ crashed' = trap
    /\ UNCHANGED <<deprecated, keys, j_jwt, pc>>
    /\ UNCHANGED jwkvars

NextLife == JwtParse \/ JwtSign \/ JwtVerify \/ JwtDestroy

SpecLife == InitLife /\ [][NextLife]_vars

\* ----------------------------------------------------- claims (lifecycle)
\* C21: across oidc_jwt_parse, oidc_jwt_sign, oidc_jwt_verify and
\* oidc_jwt_destroy on one JWT, whenever an operation has returned the
\* JWT's signature handle is NULL or a handle that was never released;
\* every other handle made was released exactly once (so oidc_jwt_sign
\* released the previous one), a failed oidc_jwt_sign leaves NULL, a failed
\* verify on a deprecated provider leaves NULL, and no released handle was
\* handed to the provider.
C21_HandleNullOrLive ==
    ~crashed =>
        /\ (jwt.cjose_jws = 0) <=> (heap.ptr = 0)
        /\ heap.ptr # 0 => heap.rel[heap.ptr] = 0
        /\ \A h \in DOMAIN heap.rel : h # heap.ptr => heap.rel[h] = 1
        /\ ~heap.stale
        /\ (call.op = "sign" /\ ~call.rc) => jwt.cjose_jws = 0
        /\ (call.op = "verify" /\ deprecated /\ ~call.rc /\ call.calls # << >>)
               => jwt.cjose_jws = 0

\* C21 witness: a JWT signed a second time while it held a signature.
C21_Witness ==
    /\ call.op = "sign" /\ call.rc /\ call.jws0 # 0
    /\ Len(heap.rel) >= 2 /\ heap.rel[1] = 1 /\ heap.ptr = Len(heap.rel)
    /\ deprecated
====
